---- MODULE Spec2Model ----
(***************************************************************************)
(* paddlehub/datasets/base_nlp_dataset.py: the construction of            *)
(* TextClassificationDataset and SeqLabelingDataset (examples -> records) *)
(* and their __getitem__.                                                  *)
(*                                                                         *)
(* Strings are sequences of one-character strings, so that str.split and  *)
(* str.startswith are computed and not assumed.  Label ids are 0-based as *)
(* in Python; TLA+ sequences are 1-based, so position p of a Python list  *)
(* is element p+1 here.  None and the empty list/dict are both falsy in   *)
(* the code's tests and are both written <<>>.                             *)
(*                                                                         *)
(* The tokenizer is an external object.  It is a deterministic function of *)
(* its input, fixed before the construction starts, so its answers on the *)
(* inputs of one construction are state: tok[i][j] is tokenize() of unit j *)
(* of example i, enc[i] is what encode() answers for example i.           *)
(***************************************************************************)
EXTENDS Integers, Sequences, FiniteSets, TLC

VARIABLES
    task,           \* "cls": TextClassificationDataset, "seq": SeqLabelingDataset
    tokenizer,      \* "BertTokenizer" or "CustomTokenizer"
    label_list,     \* self.label_list
    examples,       \* self.examples, as _read_file returned them
    tok,            \* the tokenizer's tokenize() answers
    enc,            \* the tokenizer's encode() answers
    pc,             \* position of the construction
    i,              \* index of the example the conversion loop is at (1-based)
    tokens,         \* aligned subtokens of the current example
    labels,         \* aligned labels of the current example
    record,         \* the record of the current example
    decoded,        \* tokens_with_specical_token
    pos,            \* position of the walk in decoded (1-based)
    tokens_index,   \* the cursor of the walk (0-based, as in the code)
    records,        \* the list of records
    error,          \* the exception that ended the construction, or "none"
    n_encode,       \* number of calls of tokenizer.encode so far
    ret             \* outcome of the last __getitem__

vars == <<task, tokenizer, label_list, examples, tok, enc, pc, i, tokens, labels,
          record, decoded, pos, tokens_index, records, error, n_encode, ret>>

----------------------------------------------------------------------------
(* Bounds of the dataset-level specification Spec *)
MaxExamples == 2
(* Bounds of the one-example specification SpecAlign *)
MaxAlignUnits == 2
MaxSubTokens == 2
MaxAlignSeqLen == 4

Range(s) == {s[k] : k \in 1..Len(s)}

SeqsUpTo(S, n) == UNION {[1..m -> S] : m \in 0..n}

----------------------------------------------------------------------------
(* Strings *)

split_char == "|"
no_entity_label == <<"O">>

B_PER == <<"B", "-", "P">>
I_PER == <<"I", "-", "P">>
X_LBL == <<"X">>

RECURSIVE SplitFrom(_, _, _, _)
SplitFrom(s, k, cur, acc) ==
    IF k > Len(s) THEN Append(acc, cur)
    ELSE IF s[k] = split_char THEN SplitFrom(s, k + 1, <<>>, Append(acc, cur))
    ELSE SplitFrom(s, k + 1, Append(cur, s[k]), acc)

\* str.split(self.split_char): never the empty list, "" gives [""]
Split(s) == SplitFrom(s, 1, <<>>, <<>>)

RECURSIVE Join(_)
Join(units) ==
    IF units = <<>> THEN <<>>
    ELSE IF Len(units) = 1 THEN units[1]
    ELSE units[1] \o <<split_char>> \o Join(Tail(units))

StartsWithB(label) == Len(label) >= 2 /\ label[1] = "B" /\ label[2] = "-"

ContinuationLabel_KeepB(label) == label

\* lines 361-363: sub_label
ContinuationLabel(label) ==
    IF StartsWithB(label) THEN <<"I", "-">> \o SubSeq(label, 3, Len(label)) ELSE label

----------------------------------------------------------------------------
(* The label index *)

IndexesOf(label) == {k \in 1..Len(label_list) : label_list[k] = label}

Max(S) == CHOOSE m \in S : \A n \in S : n <= m
Min(S) == CHOOSE m \in S : \A n \in S : m <= n

Found(n) == [raised |-> FALSE, id |-> n]
NotFound == [raised |-> TRUE, id |-> -1]

LabelMapGet_OneBased(label) ==
    IF IndexesOf(label) = {} THEN NotFound ELSE Found(Max(IndexesOf(label)))

\* self.label_map[label], lines 112 and 242: the dict comprehension keeps the last
\* index of a label; KeyError when the label is no key
LabelMapGet(label) ==
    IF IndexesOf(label) = {} THEN NotFound ELSE Found(Max(IndexesOf(label)) - 1)

ListIndex_Default(label) ==
    IF IndexesOf(label) = {} THEN Found(0) ELSE Found(Min(IndexesOf(label)) - 1)

\* self.label_list.index(label), lines 337 and 341: the first index; ValueError when
\* the label is not in the list
ListIndex(label) ==
    IF IndexesOf(label) = {} THEN NotFound ELSE Found(Min(IndexesOf(label)) - 1)

----------------------------------------------------------------------------
(* The tokenizer *)

\* the tokenizer's vocabulary: one special token and two wordpieces
Vocab == <<"[CLS]", "w", "##x">>
Ids == 0..(Len(Vocab) - 1)

\* encode(): a record of the tokenizer's shape, or nothing
Encode(e) ==
    IF e.none THEN <<>>
    ELSE IF tokenizer = "BertTokenizer"
         THEN [input_ids |-> e.ids, segment_ids |-> [k \in 1..Len(e.ids) |-> 0]]
         ELSE [text |-> e.ids, seq_len |-> Len(e.ids)]

\* decode(record, only_convert_to_tokens=True)
Decode(r) ==
    LET ids == IF "input_ids" \in DOMAIN r THEN r.input_ids ELSE r.text
    IN [k \in 1..Len(ids) |-> Vocab[ids[k] + 1]]

----------------------------------------------------------------------------
(* SeqLabelingDataset._reseg_token_label *)

LengthMismatch_Longer(toks, labs) == Len(toks) > Len(labs)

\* line 348
LengthMismatch(toks, labs) == Len(toks) # Len(labs)

PairLabels_NoSkip(label, sub_token) ==
    <<label>> \o [k \in 1..(IF Len(sub_token) < 2 THEN 0 ELSE Len(sub_token) - 1)
                    |-> ContinuationLabel(label)]

\* lines 355-364: what one (token, label) pair adds to ret_labels
PairLabels(label, sub_token) ==
    IF Len(sub_token) = 0 THEN <<>>
    ELSE IF Len(sub_token) < 2 THEN <<label>>
    ELSE <<label>> \o [k \in 1..(Len(sub_token) - 1) |-> ContinuationLabel(label)]

RECURSIVE ResegLoop(_, _, _, _, _)
\* lines 353-364: the loop over zip(tokens, labels)
ResegLoop(toks, labs, subs, k, acc) ==
    IF k > Len(toks) \/ k > Len(labs) THEN acc
    ELSE ResegLoop(toks, labs, subs, k + 1,
                   [tokens |-> acc.tokens \o subs[k],
                    labels |-> acc.labels \o PairLabels(labs[k], subs[k])])

RECURSIVE Flatten(_)
Flatten(subs) == IF subs = <<>> THEN <<>> ELSE Head(subs) \o Flatten(Tail(subs))

\* lines 345-379
Reseg(toks, labs, subs) ==
    IF labs # <<>>
    THEN IF LengthMismatch(toks, labs)
         THEN [error |-> "ValueError_tokens_labels", tokens |-> <<>>, labels |-> <<>>]
         ELSE LET r == ResegLoop(toks, labs, subs, 1, [tokens |-> <<>>, labels |-> <<>>])
              IN IF Len(r.tokens) # Len(r.labels)
                 THEN [error |-> "ValueError_ret_tokens", tokens |-> <<>>, labels |-> <<>>]
                 ELSE [error |-> "none", tokens |-> r.tokens, labels |-> r.labels]
    ELSE [error |-> "none", tokens |-> Flatten(subs), labels |-> <<>>]

----------------------------------------------------------------------------
(* The walk over the decoded stream, lines 332-341 *)

\* lines 334-335
WalkMatch(token, idx) == idx < Len(tokens) /\ token = tokens[idx + 1]

WalkLabel_First(token, idx) ==
    IF WalkMatch(token, idx) THEN labels[1] ELSE no_entity_label

\* the label the position looks up, lines 337 and 341
WalkLabel(token, idx) ==
    IF WalkMatch(token, idx) THEN labels[idx + 1] ELSE no_entity_label

WalkNextIndex_Always(token, idx) == IF idx < Len(tokens) THEN idx + 1 ELSE idx

\* line 338
WalkNextIndex(token, idx) == IF WalkMatch(token, idx) THEN idx + 1 ELSE idx

WalkEmit_NoElse(lab, token, idx) ==
    IF WalkMatch(token, idx) THEN Append(lab, ListIndex(labels[idx + 1]).id) ELSE lab

\* lines 336-337 and 340-341: record["label"].append(...)
WalkEmit(lab, token, idx) == Append(lab, ListIndex(WalkLabel(token, idx)).id)

----------------------------------------------------------------------------
(* Records *)

\* "if not record", lines 237 and 323
Dropped(r) == DOMAIN r = {}

HasLabel(r) == "label" \in DOMAIN r

\* record['label'] = v
SetLabel(r, v) == ("label" :> v) @@ r

AppendRecord_Front(rs, r) == <<r>> \o rs

\* records.append(record), lines 243 and 342
AppendRecord(rs, r) == Append(rs, r)

----------------------------------------------------------------------------
(* Actions *)

Raise(e) ==
    /\ pc' = "raised"
    /\ error' = e

\* lines 233-243: one iteration of TextClassificationDataset's loop
ClsConvert ==
    /\ pc = "loop"
    /\ task = "cls"
    /\ i <= Len(examples)
    /\ n_encode' = n_encode + 1
    /\ LET r == Encode(enc[i])
           label == examples[i].label
       IN IF Dropped(r)
          THEN /\ i' = i + 1
               /\ UNCHANGED <<pc, error, records>>
          ELSE IF label # <<>>
               THEN IF ~LabelMapGet(label).raised
                    THEN /\ records' = AppendRecord(records, SetLabel(r, LabelMapGet(label).id))
                         /\ i' = i + 1
                         /\ UNCHANGED <<pc, error>>
                    ELSE /\ Raise("KeyError")
                         /\ UNCHANGED <<i, records>>
               ELSE /\ records' = AppendRecord(records, r)
                    /\ i' = i + 1
                    /\ UNCHANGED <<pc, error>>
    /\ UNCHANGED <<task, tokenizer, label_list, examples, tok, enc, tokens, labels,
                   record, decoded, pos, tokens_index, ret>>

\* lines 316-318: split and re-segment the current example
SeqReseg ==
    /\ pc = "loop"
    /\ task = "seq"
    /\ i <= Len(examples)
    /\ LET r == Reseg(Split(examples[i].text_a), Split(examples[i].label), tok[i])
       IN IF r.error # "none"
          THEN /\ Raise(r.error)
               /\ UNCHANGED <<tokens, labels>>
          ELSE /\ tokens' = r.tokens
               /\ labels' = r.labels
               /\ pc' = "encode"
               /\ UNCHANGED error
    /\ UNCHANGED <<task, tokenizer, label_list, examples, tok, enc, i, record, decoded,
                   pos, tokens_index, records, n_encode, ret>>

\* lines 319-331 and 342: encode, drop, or start the walk
SeqEncode ==
    /\ pc = "encode"
    /\ n_encode' = n_encode + 1
    /\ LET r == Encode(enc[i])
       IN IF Dropped(r)
          THEN /\ i' = i + 1
               /\ pc' = "loop"
               /\ UNCHANGED <<record, decoded, pos, tokens_index, records>>
          ELSE IF labels # <<>>
               THEN /\ record' = SetLabel(r, <<>>)
                    /\ decoded' = Decode(r)
                    /\ pos' = 1
                    /\ tokens_index' = 0
                    /\ pc' = "walk"
                    /\ UNCHANGED <<i, records>>
               ELSE /\ records' = AppendRecord(records, r)
                    /\ i' = i + 1
                    /\ pc' = "loop"
                    /\ UNCHANGED <<record, decoded, pos, tokens_index>>
    /\ UNCHANGED <<task, tokenizer, label_list, examples, tok, enc, tokens, labels,
                   error, ret>>

\* lines 333-341: one position of the decoded stream
WalkStep ==
    /\ pc = "walk"
    /\ pos <= Len(decoded)
    /\ LET token == decoded[pos]
       IN IF ~ListIndex(WalkLabel(token, tokens_index)).raised
          THEN /\ record' = [record EXCEPT !.label = WalkEmit(@, token, tokens_index)]
               /\ tokens_index' = WalkNextIndex(token, tokens_index)
               /\ pos' = pos + 1
               /\ UNCHANGED <<pc, error>>
          ELSE /\ Raise("ValueError_index")
               /\ UNCHANGED <<record, tokens_index, pos>>
    /\ UNCHANGED <<task, tokenizer, label_list, examples, tok, enc, i, tokens, labels,
                   decoded, records, n_encode, ret>>

\* line 342, after the walk
WalkEnd ==
    /\ pc = "walk"
    /\ pos > Len(decoded)
    /\ records' = AppendRecord(records, record)
    /\ i' = i + 1
    /\ pc' = "loop"
    /\ UNCHANGED <<task, tokenizer, label_list, examples, tok, enc, tokens, labels,
                   record, decoded, pos, tokens_index, error, n_encode, ret>>

\* lines 198 and 288: self.records = ...; the constructor returns
Finish ==
    /\ pc = "loop"
    /\ i > Len(examples)
    /\ pc' = "done"
    /\ UNCHANGED <<task, tokenizer, label_list, examples, tok, enc, i, tokens, labels,
                   record, decoded, pos, tokens_index, records, error, n_encode, ret>>

\* the flat tuple of a record of shape A
TupleA(r) ==
    IF HasLabel(r) THEN <<r.input_ids, r.segment_ids, r.label>>
    ELSE <<r.input_ids, r.segment_ids>>

\* the flat tuple of a record of shape B
TupleB(r) ==
    IF HasLabel(r) THEN <<r.text, r.seq_len, r.label>>
    ELSE <<r.text, r.seq_len>>

\* TextClassificationDataset.__getitem__, lines 246-257
ClsGetItem(r) ==
    IF tokenizer = "BertTokenizer" THEN [raised |-> "none", value |-> TupleA(r)]
    ELSE [raised |-> "none", value |-> TupleB(r)]

\* SeqLabelingDataset.__getitem__, lines 381-392
SeqGetItem(r) ==
    IF tokenizer = "BertTokenizer" THEN [raised |-> "none", value |-> TupleA(r)]
    ELSE [raised |-> "NotImplementedError", value |-> <<>>]

\* __getitem__(idx) on the constructed dataset, idx a valid 0-based index
GetItem ==
    /\ pc = "done"
    /\ \E idx \in 0..(Len(records) - 1) :
          ret' = [idx |-> idx,
                  out |-> IF task = "cls" THEN ClsGetItem(records[idx + 1])
                          ELSE SeqGetItem(records[idx + 1])]
    /\ UNCHANGED <<task, tokenizer, label_list, examples, tok, enc, pc, i, tokens, labels,
                   record, decoded, pos, tokens_index, records, error, n_encode>>

Next ==
    \/ ClsConvert
    \/ SeqReseg
    \/ SeqEncode
    \/ WalkStep
    \/ WalkEnd
    \/ Finish
    \/ GetItem

----------------------------------------------------------------------------
(* Initial states: the dataset's arguments, the file's examples and the    *)
(* tokenizer's answers, before the conversion loop starts.                 *)

NoRet == [idx |-> -1, out |-> [raised |-> "none", value |-> <<>>]]

InputExample(text_a, label) == [text_a |-> text_a, label |-> label]

NoRecord == [none |-> TRUE, ids |-> <<>>]

\* the raw fields made of 1..n units of Units
Fields(Units, n) == {Join(u) : u \in SeqsUpTo(Units, n) \ {<<>>}}

\* the tokenize() answers for one example: one subtoken list per unit of text_a
TokAnswers(text_a, SubTokens) == [1..Len(Split(text_a)) -> SubTokens]

Item(e, f, a) == [ex |-> e, tok |-> f, enc |-> a]

ClsItems(Texts, Labels, Encs) ==
    {Item(InputExample(t, l), <<>>, a) : t \in Texts, l \in Labels, a \in Encs}

SeqItems(Texts, Labels, SubTokens, Encs) ==
    UNION {{Item(InputExample(t, l), f, a) :
               l \in Labels, f \in TokAnswers(t, SubTokens), a \in Encs} : t \in Texts}

\* the loop of _convert_examples_to_records has not started
Start ==
    /\ pc = "loop"
    /\ i = 1
    /\ tokens = <<>>
    /\ labels = <<>>
    /\ record = <<>>
    /\ decoded = <<>>
    /\ pos = 1
    /\ tokens_index = 0
    /\ records = <<>>
    /\ error = "none"
    /\ n_encode = 0
    /\ ret = NoRet

WORD == <<"a">>
O_LBL == no_entity_label

DatasetEncs ==
    {NoRecord, [none |-> FALSE, ids |-> <<0, 1>>], [none |-> FALSE, ids |-> <<0>>]}

DatasetClsItems == ClsItems({WORD}, {<<>>, B_PER, X_LBL}, DatasetEncs)

DatasetSeqItems ==
    SeqItems({WORD, Join(<<WORD, WORD>>)}, {<<>>, B_PER, Join(<<X_LBL, B_PER>>)},
             {<<>>, <<"w">>}, DatasetEncs)

\* Spec: datasets of up to MaxExamples examples, of both tasks and tokenizers
Init ==
    /\ task \in {"cls", "seq"}
    /\ tokenizer \in {"BertTokenizer", "CustomTokenizer"}
    /\ label_list \in {<<O_LBL, B_PER, I_PER>>, <<B_PER, O_LBL, B_PER>>}
    /\ \E n \in 1..MaxExamples :
          \E items \in [1..n -> IF task = "cls" THEN DatasetClsItems ELSE DatasetSeqItems] :
             /\ examples = [k \in 1..n |-> items[k].ex]
             /\ tok = [k \in 1..n |-> items[k].tok]
             /\ enc = [k \in 1..n |-> items[k].enc]
    \* lines 235-236: it is CustomTokenizer whose encode() returns nothing
    /\ tokenizer = "BertTokenizer" => \A k \in 1..Len(enc) : ~enc[k].none
    /\ Start

Spec == Init /\ [][Next]_vars

\* SpecAlign: SeqLabelingDataset over one example, every tokenizer answer in the bounds
NextAlign ==
    \/ SeqReseg
    \/ SeqEncode
    \/ WalkStep
    \/ WalkEnd
    \/ Finish
    \/ GetItem

AlignSubTokens ==
    {[k \in 1..m |-> IF k = 1 THEN "w" ELSE "##x"] : m \in 0..MaxSubTokens}

InitAlign ==
    /\ task = "seq"
    /\ tokenizer = "BertTokenizer"
    /\ label_list = <<O_LBL, B_PER, I_PER>>
    /\ \E n \in 1..MaxAlignUnits :
          \E ls \in [1..n -> {B_PER, O_LBL}] :
             /\ examples = <<InputExample(Join([k \in 1..n |-> WORD]), Join(ls))>>
             /\ \E f \in [1..n -> AlignSubTokens] : tok = <<f>>
    /\ \E ids \in SeqsUpTo(Ids, MaxAlignSeqLen) : enc = <<[none |-> FALSE, ids |-> ids]>>
    /\ Start

SpecAlign == InitAlign /\ [][NextAlign]_vars

----------------------------------------------------------------------------
(* Properties of the alignment, checked under SpecAlign *)

\* the walk over the decoded stream of the current example has ended (line 342)
WalkDone == pc = "walk" /\ pos > Len(decoded)

\* C1: every retained record that carries a label list has one label per position of
\* its decoded token stream, special tokens included.
C1_LabelLengthMatchesDecoded ==
    \A k \in 1..Len(records) :
        HasLabel(records[k]) => Len(records[k].label) = Len(Decode(records[k]))

\* a retained record whose decoded stream is shorter than the aligned stream
C1_Witness ==
    /\ pc = "done"
    /\ Len(records) = 1
    /\ HasLabel(records[1])
    /\ Len(decoded) >= 1
    /\ Len(decoded) < Len(tokens)

InAligned(t) == t \in Range(tokens)

\* the decoded stream is the aligned subtokens in order, with tokens that equal no
\* aligned subtoken inserted anywhere
Interleaved == SelectSeq(decoded, InAligned) = tokens

IdOf(label) == (CHOOSE k \in 1..Len(label_list) : label_list[k] = label) - 1

\* the label id the claim puts at position p of the decoded stream
C2_Expected(p) ==
    IF InAligned(decoded[p])
    THEN IdOf(labels[Cardinality({q \in 1..p : InAligned(decoded[q])})])
    ELSE IdOf(no_entity_label)

\* C2: when the decoded stream is the aligned subtokens in order with special tokens
\* inserted, and no special token equals an aligned subtoken, the label list
\* holds the aligned label's id at every subtoken position and the id of
\* no_entity_label at every special-token position.
C2_BackMapping ==
    (WalkDone /\ Interleaved) =>
        record.label = [p \in 1..Len(decoded) |-> C2_Expected(p)]

\* [CLS] w ##x [CLS] against w, ##x labelled B-P, I-P gives O, B-P, I-P, O
C2_Witness ==
    /\ WalkDone
    /\ Interleaved
    /\ decoded = <<"[CLS]", "w", "##x", "[CLS]">>
    /\ labels = <<B_PER, I_PER>>
    /\ record.label = <<0, 1, 2, 0>>

\* the labels the claim gives a token of k subunits
C3_Contribution(label, k) ==
    [j \in 1..k |->
        IF j = 1 THEN label
        ELSE IF Len(label) >= 2 /\ SubSeq(label, 1, 2) = <<"B", "-">>
             THEN <<"I", "-">> \o SubSeq(label, 3, Len(label))
             ELSE label]

RECURSIVE C3_Labels(_, _, _)
C3_Labels(labs, subs, k) ==
    IF k > Len(labs) THEN <<>>
    ELSE C3_Contribution(labs[k], Len(subs[k])) \o C3_Labels(labs, subs, k + 1)

RECURSIVE C3_Tokens(_, _)
C3_Tokens(subs, k) ==
    IF k > Len(subs) THEN <<>> ELSE subs[k] \o C3_Tokens(subs, k + 1)

\* C3: a token of k subunits adds its k subunits to the subtokens and k labels to
\* the labels: nothing for k = 0, the label for k = 1, the label and k-1 continuation
\* labels for k >= 2 ("I-" + suffix for a "B-" label, the label itself otherwise).
C3_ContinuationPropagation ==
    pc = "encode" =>
        /\ tokens = C3_Tokens(tok[i], 1)
        /\ labels = C3_Labels(Split(examples[i].label), tok[i], 1)

\* a "B-" token split in two next to a token with no subunit
C3_Witness ==
    /\ pc = "encode"
    /\ Len(tok[i]) = 2
    /\ tok[i][1] = <<>>
    /\ Len(tok[i][2]) = 2
    /\ Split(examples[i].label)[2] = B_PER
    /\ labels = <<B_PER, I_PER>>

\* C4: for token and label inputs of equal length the aligner's outputs have equal
\* length, and the length check after the loop never raises.
C4_AlignedLengths ==
    /\ error # "ValueError_ret_tokens"
    /\ pc \in {"encode", "walk"} => Len(tokens) = Len(labels)

\* two tokens, one without subunits and one split in two
C4_Witness ==
    /\ pc = "encode"
    /\ Len(Split(examples[i].text_a)) = 2
    /\ tok[i][2] = <<>>
    /\ Len(tokens) = 2
    /\ Len(labels) = 2

\* one position of the walk, as the claim describes it
C10_Step ==
    LET token == decoded[pos]
        matched == tokens_index < Len(tokens) /\ token = tokens[tokens_index + 1]
    IN \/ /\ matched
          /\ tokens_index' = tokens_index + 1
          /\ record'.label = Append(record.label, IdOf(labels[tokens_index + 1]))
       \/ /\ ~matched
          /\ tokens_index' = tokens_index
          /\ record'.label = Append(record.label, IdOf(no_entity_label))

\* C10: the cursor never exceeds the aligned stream's length, and every position of
\* the walk either matches the subtoken at the cursor, emits that subtoken's label
\* and advances the cursor by one, or emits no_entity_label and leaves the cursor
\* where it is: the aligned labels are emitted in order, none skipped or repeated.
C10_CursorDiscipline ==
    /\ [](tokens_index <= Len(tokens) /\ tokens_index <= pos - 1)
    /\ [][(pc = "walk" /\ pos' = pos + 1) => C10_Step]_vars

\* the cursor is inside the aligned stream and the decoded token does not match it
C10_Witness ==
    /\ pc = "walk"
    /\ pos <= Len(decoded)
    /\ tokens_index >= 1
    /\ tokens_index < Len(tokens)
    /\ decoded[pos] # tokens[tokens_index + 1]
    /\ Len(record.label) = pos - 1

----------------------------------------------------------------------------
(* Properties of the constructed dataset, checked under Spec *)

InList(label) == \E k \in 1..Len(label_list) : label_list[k] = label

\* the examples for which encode() returned a record
Kept == {k \in 1..Len(examples) : ~enc[k].none}

\* the j-th of them, in input order
KeptAt(j) == CHOOSE k \in Kept : Cardinality({m \in Kept : m <= k}) = j

Strip(r) == [f \in (DOMAIN r) \ {"label"} |-> r[f]]

\* C5: the constructed dataset holds, in input order, the records of exactly the
\* examples whose encode returned a record; no placeholder is stored; its length
\* is at most the number of examples, with equality iff no example was dropped.
C5_Retention ==
    pc = "done" =>
        /\ Len(records) = Cardinality(Kept)
        /\ \A j \in 1..Len(records) :
              /\ records[j] # <<>>
              /\ Strip(records[j]) = Encode(enc[KeptAt(j)])
        /\ Len(records) <= Len(examples)
        /\ (Len(records) = Len(examples)) <=> (\A k \in 1..Len(examples) : ~enc[k].none)

\* the first of two examples was dropped, the second retained
C5_Witness ==
    /\ pc = "done"
    /\ Len(examples) = 2
    /\ enc[1].none
    /\ Len(records) = 1
    /\ Strip(records[1]) = Encode(enc[2])

\* the label strings example k carries
CarriedLabels(k) ==
    IF task = "cls"
    THEN IF examples[k].label = <<>> THEN {} ELSE {examples[k].label}
    ELSE Range(Split(examples[k].label))

\* C6 as stated: a dataset is constructed only if every label string carried by
\* every input example is in the label list.
C6_AnyUnknownLabelFatal ==
    pc = "done" =>
        \A k \in 1..Len(examples) : \A l \in CarriedLabels(k) : InList(l)

\* C6 as amended: every label the construction looks up is in the label list or the
\* construction has raised: the classification label of each example that was
\* encoded to a record and has a non-empty label; in the walk, the aligned labels
\* up to the cursor and, once a position did not match, no_entity_label.  An
\* exception ends the construction, and a dataset is constructed only without one.
C6_LookedUpUnknownLabelFatal ==
    /\ error # "none" <=> pc = "raised"
    /\ task = "cls" =>
          \A k \in 1..(i - 1) :
              (~enc[k].none /\ examples[k].label # <<>>) => InList(examples[k].label)
    /\ (task = "seq" /\ pc = "walk") =>
          /\ \A c \in 1..tokens_index : InList(labels[c])
          /\ (pos - 1 > tokens_index) => InList(no_entity_label)

\* the walk matched a subtoken whose label is not in the label list, and raised
C6_Witness ==
    /\ pc = "raised"
    /\ error = "ValueError_index"
    /\ tokens_index < Len(tokens)
    /\ decoded[pos] = tokens[tokens_index + 1]
    /\ labels[tokens_index + 1] = X_LBL

Mismatch(k) == Len(Split(examples[k].text_a)) # Len(Split(examples[k].label))

\* C7: a sequence-labeling example whose text and label split into different numbers
\* of units is never encoded and never passed: when the loop reaches it the
\* construction raises the alignment error, and no dataset is constructed.
C7_MismatchFatal ==
    task = "seq" =>
        \A k \in 1..Len(examples) :
            Mismatch(k) =>
                /\ n_encode < k
                /\ i <= k
                /\ pc # "done"
                /\ (i = k /\ pc # "loop") =>
                      (pc = "raised" /\ error = "ValueError_tokens_labels")

\* the second example has an empty label field against two text units; the first
\* example's record was already in the list when the construction raised
C7_Witness ==
    /\ task = "seq"
    /\ pc = "raised"
    /\ error = "ValueError_tokens_labels"
    /\ i = 2
    /\ Len(records) = 1
    /\ n_encode = 1
    /\ examples[2].label = <<>>
    /\ Len(Split(examples[2].text_a)) = 2

InRange(v) == v \in 0..(Len(label_list) - 1)

\* C8: every label value stored in a record is an index of the label list.
C8_LabelIdRange ==
    \A k \in 1..Len(records) :
        HasLabel(records[k]) =>
            IF task = "cls" THEN InRange(records[k].label)
            ELSE \A p \in 1..Len(records[k].label) : InRange(records[k].label[p])

\* a classification label that is twice in the label list gets the last index
C8_Witness ==
    /\ pc = "done"
    /\ task = "cls"
    /\ label_list = <<B_PER, O_LBL, B_PER>>
    /\ Len(records) = 2
    /\ HasLabel(records[2])
    /\ records[2].label = 2

\* the flat tuple the claim gives record r
C9_Expected(r) ==
    LET shape == IF "input_ids" \in DOMAIN r THEN <<r.input_ids, r.segment_ids>>
                 ELSE <<r.text, r.seq_len>>
    IN IF "label" \in DOMAIN r THEN Append(shape, r.label) ELSE shape

\* C9: __getitem__ of a valid index returns the record's two shape fields, and the
\* label iff the record has one, for both datasets and both tokenizers; it never
\* raises.
C9_GetItemBothVariants ==
    ret.idx >= 0 =>
        /\ ret.out.raised = "none"
        /\ ret.out.value = C9_Expected(records[ret.idx + 1])

====
